---------------------------- MODULE Spec2Model ----------------------------
(***************************************************************************)
(* A model of the clinical-protocol-ai pipeline: per-page text chunking    *)
(* (pdf_loader.py, text_chunker.py), retrieval and confidence scoring      *)
(* (new_rag_system.py, main.py) and key-section extraction as seen by the  *)
(* React front end (api.js, DocumentAnalysis).                             *)
(*                                                                         *)
(* Texts are sequences of one-character strings.  Scores that the code     *)
(* keeps as floats are kept as exact integers in a fixed unit:             *)
(*   distances and Q&A confidence in hundredths (1.2 is 120),              *)
(*   relevance in twelve-hundredths (1.0 is 1200, 0.2 is 240),             *)
(*   extraction confidence in hundredths (0.95 is 95).                     *)
(***************************************************************************)
EXTENDS Integers, Sequences, FiniteSets, TLC

VARIABLES
    \* ---- ingestion: pdf_loader.py + text_chunker.py
    doc,            \* raw page texts of the PDF, in page order
    pages_data,     \* result of load_pdf_with_pages
    chunk_size,
    overlap,
    chunks,         \* list built by chunk_pages_with_metadata
    chunk_id,
    page_idx,       \* position of the for-loop in pages_data (1-based)
    start,          \* the while-loop's cursor in the current page
    seg_pc,         \* "load" | "chunk" | "done"
    \* ---- question answering: new_rag_system.py
    results,            \* the vector index's answer to collection.query
    scored,             \* the hits with their relevance_score
    relevant_sections,  \* what _find_relevant_sections returns
    confidence,         \* 1 - results['distances'][0][0], "none" before it is set
    answer,             \* the Answer handed back, "none" before there is one
    rag_pc,             \* "idle" | "searched" | "answered" | "failed"
    \* ---- key-section extraction: main.py behind DocumentAnalysis (React)
    documentReady,      \* prop of DocumentAnalysis
    loading,            \* useState(false)
    sections,           \* useState(extractedSections || [])
    error,              \* useState(null), "none" for null
    analysisComplete,   \* useState(false)
    extract_pc,         \* handleExtractSections: "idle" | "awaiting"
    backend_pc,         \* GET /extract-key-sections: "idle" | "working" |
                        \* "responded" | "delivered"
    first_evidence,     \* evidence the first section type's question finds
    hits_per_page,      \* consecutive hits of the document that share a page
    generation,         \* per section type, how its generation call ended
    task,               \* the results of the workers that finished, by type
    response,           \* the response body, "none" before there is one
    extractions,        \* requests sent so far
    \* ---- review of the sections and the summary: DocumentAnalysis (React)
    generating,             \* useState(false)
    disapprovalDialogOpen,  \* useState(false)
    disapprovalReason,      \* useState(''), "" | " " | "reason"
    selectedSectionIndex,   \* useState(null), 0 for null
    alerted,                \* the alert() of handleSubmitDisapproval was shown
    summary_pc,             \* handleGenerateSummary: "idle" | "awaiting"
    posted,                 \* body of the last POST /review-sections, <<>> before
    review_response,        \* its response, "none" before there is one
    finalSummary,           \* useState(null) of the parent, "none" for null
    reviews,                \* approve / disapprove decisions taken so far
    \* ---- the generation gateway: llm_client.py, new_rag_system.py
    model_warmed,       \* _model_warmed
    llm_fn,             \* the function called: "ask_llm" | "_call_llm_for_reading"
    llm_reply,          \* what the provider did with the prompt
    llm_posts,          \* requests that carried the prompt during this call
    llm_result,         \* what the call returned
    llm_pc,             \* "idle" | "returned"
    \* ---- the embedding gateway: embeddings.py
    emb_site,           \* who called: "none" | "ingest" | "query"
    emb_text,           \* the text handed to get_embedding
    emb_prompt,         \* payload["prompt"] of the request, <<>> when none was sent
    emb_reply,          \* what the provider did with the request
    emb_result,         \* the embedding returned, or the exception raised
    emb_pc,             \* "idle" | "returned"
    \* ---- the application shell, the upload and the chat (React)
    documentStatus,     \* useState({status: 'no_data', vector_count: 0})
    status_cache,       \* cache.get('status') of api.js, <<>> when absent
    server_status,      \* what GET /status would answer now
    uploading,          \* DocumentUpload: useState(false)
    upload_error,       \* DocumentUpload: useState(null), "none" for null
    upload_pc,          \* handleFileUpload: "idle" | "posting" | "polling"
    poll_attempt,       \* pollProgress(attempt), counted up to PollRetries
    uploadResult,       \* DocumentUpload: useState(null), "none" for null
    poll_chains,        \* pollProgress chains with a timer or a request under way
    poll_retries_used,  \* failed polls of the current chain that were retried
    status_refresh,     \* the 2 s timer of onUploadComplete is running
    status_checked,     \* checkStatus has run since the back end last changed its status
    messages,           \* ChatInterface: useState([...])
    isLoading,          \* ChatInterface: useState(false)
    isTyping,           \* ChatInterface: useState(false)
    chat_pc,            \* handleSendMessage: "idle" | "awaiting"
    typing_timers,      \* assistant messages waiting for their 500 ms timer
    asks_in_flight,     \* the questions of the askQuestion calls not yet settled
    \* ---- the response cache of the API client: api.js
    cache,              \* Map: key -> { data, timestamp }
    cache_now,          \* Date.now(), in minutes
    cache_backend,      \* the version of the data the back end answers with
    cache_fetching,     \* keys with a request to the back end in flight
    cache_call,         \* the last getStatus / getFeedbackStats / getRecentFeedback call
    \* ---- the useApi hook: useApi.js
    api_options,        \* options of the execute call under way
    api_loading,        \* loading
    api_error,          \* error: the message set by setError, "null" when none
    api_attempt,        \* attempt
    api_invocations,    \* times apiCall was invoked by this execute
    api_resolved,       \* times apiCall resolved in this execute
    api_success_calls,  \* times onSuccess was called by this execute
    api_error_calls,    \* times onError was called by this execute
    api_thrown,         \* the error execute has thrown, NoError when none
    api_pc              \* "idle" | "calling" | "waiting" | "returned" | "thrown"

segVars == <<doc, pages_data, chunk_size, overlap, chunks, chunk_id,
             page_idx, start, seg_pc>>

ragVars == <<results, scored, relevant_sections, confidence, answer, rag_pc>>

extVars == <<documentReady, loading, sections, error, analysisComplete,
             extract_pc, backend_pc, first_evidence, hits_per_page, generation,
             task, response, extractions>>

revVars == <<generating, disapprovalDialogOpen, disapprovalReason,
             selectedSectionIndex, alerted, summary_pc, posted, review_response,
             finalSummary, reviews>>

\* The state of DocumentAnalysis that the review does not write.
extRest == <<documentReady, loading, analysisComplete, extract_pc, backend_pc,
             first_evidence, hits_per_page, generation, task, response,
             extractions>>

genVars == <<model_warmed, llm_fn, llm_reply, llm_posts, llm_result, llm_pc>>

embVars == <<emb_site, emb_text, emb_prompt, emb_reply, emb_result, emb_pc>>

chatVars == <<documentStatus, status_cache, server_status, uploading, upload_error, upload_pc, poll_attempt, uploadResult, poll_chains, poll_retries_used, status_refresh, status_checked, messages, isLoading, isTyping, chat_pc, typing_timers, asks_in_flight>>

cacheVars == <<cache, cache_now, cache_backend, cache_fetching, cache_call>>

apiVars == <<api_options, api_loading, api_error, api_attempt, api_invocations, api_resolved, api_success_calls, api_error_calls, api_thrown, api_pc>>

vars == <<segVars, ragVars, extVars, revVars, genVars, embVars, chatVars, cacheVars, apiVars>>

\* What a step of one component leaves alone.
notSeg == <<ragVars, extVars, revVars, genVars, embVars, chatVars, cacheVars, apiVars>>
notRag == <<segVars, extVars, revVars, genVars, embVars, chatVars, cacheVars, apiVars>>
notExt == <<segVars, ragVars, revVars, genVars, embVars, chatVars, cacheVars, apiVars>>
notRev == <<segVars, ragVars, extRest, genVars, embVars, chatVars, cacheVars, apiVars>>
notGen == <<segVars, ragVars, extVars, revVars, embVars, chatVars, cacheVars, apiVars>>
notEmb == <<segVars, ragVars, extVars, revVars, genVars, chatVars, cacheVars, apiVars>>
notChat == <<segVars, ragVars, extVars, revVars, genVars, embVars, cacheVars, apiVars>>
notCache == <<segVars, ragVars, extVars, revVars, genVars, embVars, chatVars, apiVars>>
notApi == <<segVars, ragVars, extVars, revVars, genVars, embVars, chatVars, cacheVars>>

-----------------------------------------------------------------------------
(* Bounds of the model *)

MaxLen == 4          \* total number of characters in a bounded document
MaxPages == 2        \* pages in a bounded document
MaxChunkSize == 3    \* chunk_size is drawn from 1..MaxChunkSize
MaxOverlap == 2      \* overlap is drawn from 0..MaxOverlap
MaxChunks == 5       \* the chunk list is cut off at this length
MaxResults == 8      \* hits one vector query returns at most
MaxCount == 8        \* source and evidence counts the confidence formula is tried on
MaxExtractions == 1  \* extraction requests one session sends
MaxReviews == 2      \* approve / disapprove decisions of one review
MaxLines == 3        \* lines of a generated answer
MaxDim == 2          \* numbers in an embedding vector
MaxEmbedLen == 2     \* characters of a text that is embedded
MaxMessages == 3     \* messages of one chat, pending answers included
MaxNow == 6          \* minutes the clock of the response cache runs
MaxVersion == 2      \* versions of the data behind a cached endpoint
MaxRetries == 2      \* the retries option of execute
MaxChains == 2       \* polling chains of uploads followed at once
MaxHitsPerPage == 3  \* consecutive hits that come from one page, at most

-----------------------------------------------------------------------------
(* Helpers *)

Min(a, b) == IF a < b THEN a ELSE b
Max(a, b) == IF a > b THEN a ELSE b

SetMax(S) == CHOOSE x \in S : \A y \in S : y <= x

\* Python's s[a:b] on a sequence, with negative and out-of-range indices.
PySlice(s, a, b) ==
    LET n  == Len(s)
        lo == IF a < 0 THEN Max(a + n, 0) ELSE Min(a, n)
        hi == IF b < 0 THEN Max(b + n, 0) ELSE Min(b, n)
    IN  IF lo >= hi THEN <<>> ELSE SubSeq(s, lo + 1, hi)

\* Character classes of the regular expression [.!?]\s+(?=[A-Z]).
Punct == {".", "!", "?"}
Whitespace == {" ", "\t", "\n"}
UpperCase == {"A", "B", "C", "D", "E", "F", "G", "H", "I", "J", "K", "L", "M",
              "N", "O", "P", "Q", "R", "S", "T", "U", "V", "W", "X", "Y", "Z"}

\* Python's str.strip(): drop leading and trailing whitespace.
RECURSIVE LStrip(_)
LStrip(s) == IF s # <<>> /\ Head(s) \in Whitespace THEN LStrip(Tail(s)) ELSE s

RECURSIVE RStrip(_)
RStrip(s) ==
    IF s # <<>> /\ s[Len(s)] \in Whitespace
    THEN RStrip(SubSeq(s, 1, Len(s) - 1)) ELSE s

Strip(s) == RStrip(LStrip(s))

-----------------------------------------------------------------------------
(* pdf_loader.py: load_pdf_with_pages *)

\* Pages whose stripped text is empty are left out; page numbers are 1-based
\* positions in the PDF.
RECURSIVE LoadFrom(_, _)
LoadFrom(d, i) ==
    IF i > Len(d) THEN <<>>
    ELSE IF Strip(d[i]) # <<>>
         THEN <<[page_number |-> i, text |-> Strip(d[i])]>> \o LoadFrom(d, i + 1)
         ELSE LoadFrom(d, i + 1)

\* A loader that hands every page on as it is, blank ones too.
load_pdf_keeping_blank_pages(d) ==
    [i \in 1..Len(d) |-> [page_number |-> i, text |-> d[i]]]

load_pdf_with_pages(d) == LoadFrom(d, 1)

-----------------------------------------------------------------------------
(* text_chunker.py: chunk_pages_with_metadata *)

SnapWindow == 150

\* The 0-based end offsets of the matches of [.!?]\s+(?=[A-Z]) in chunk_text:
\* a match is a punctuation mark, one or more whitespace characters, and stops
\* right before a capital letter that is itself inside chunk_text.
MatchEnds(chunk_text) ==
    { j - 1 : j \in { j \in 3..Len(chunk_text) :
          /\ chunk_text[j] \in UpperCase
          /\ \E i \in 1..(j - 2) :
                /\ chunk_text[i] \in Punct
                /\ \A k \in (i + 1)..(j - 1) : chunk_text[k] \in Whitespace } }

\* The end of the window that starts at st: start + chunk_size, snapped back to
\* the last sentence boundary when the window stops before the page does.
WindowEnd(page_text, st, size) ==
    LET end        == st + size
        chunk_text == PySlice(page_text, st, end)
        matches    == MatchEnds(chunk_text)
    IN  IF end < Len(page_text) /\ matches # {}
           /\ SetMax(matches) > Len(chunk_text) - SnapWindow
        THEN st + SetMax(matches)
        ELSE end

\* A chunker that forgets the overlap when it moves the cursor.
NextStartNoOverlap(end, ov) == end

NextStart(end, ov) == end - ov

ChunkRecord(id, page, st, end) ==
    [ id          |-> <<"chunk_", id>>,
      text        |-> <<"search_document: ">> \o Strip(PySlice(page.text, st, end)),
      page_number |-> page.page_number,
      start_pos   |-> st,
      end_pos     |-> end,
      source      |-> <<"Page ", page.page_number>> ]

-----------------------------------------------------------------------------
(* Inputs *)

Alphabet == {"a", ".", " ", "B"}

TextsOfLen(n) == [1..n -> Alphabet]

\* Documents of k pages with at most budget characters in all.
RECURSIVE DocsOf(_, _)
DocsOf(k, budget) ==
    IF k = 0 THEN {<<>>}
    ELSE UNION { { <<t>> \o rest : rest \in DocsOf(k - 1, budget - n),
                                  t \in TextsOfLen(n) } : n \in 0..budget }

BoundedDocs == UNION { DocsOf(k, MaxLen) : k \in 0..MaxPages }

ScenarioText ==
    <<"T", "h", "e", " ", "p", "a", "t", "i", "e", "n", "t", " ", "h", "a",
      "s", " ", "d", "i", "a", "b", "e", "t", "e", "s", ".", " ", "T", "h",
      "e", " ", "t", "r", "e", "a", "t", "m", "e", "n", "t", " ", "i", "s",
      " ", "i", "n", "s", "u", "l", "i", "n", ".", " ", "T", "h", "e", " ",
      "d", "o", "s", "a", "g", "e", " ", "i", "s", " ", "1", "0", "m", "g",
      ".">>

ScenarioChunkSize == 30
ScenarioOverlap == 10

\* A page longer than the snap window: one early sentence boundary, then text
\* with no boundary at all.
LongTextLen == 160
LongChunkSize == 155
LongText == <<"a", ".", " ", "B">> \o [i \in 1..LongTextLen |-> "a"]

-----------------------------------------------------------------------------
(* The ingestion state machine *)

SegStart(d, size, ov) ==
    /\ doc = d
    /\ chunk_size = size
    /\ overlap = ov
    /\ pages_data = <<>>
    /\ chunks = <<>>
    /\ chunk_id = 0
    /\ page_idx = 1
    /\ start = 0
    /\ seg_pc = "load"

SegInit ==
    \/ \E d \in BoundedDocs, size \in 1..MaxChunkSize, ov \in 0..MaxOverlap :
          SegStart(d, size, ov)
    \/ SegStart(<<ScenarioText>>, ScenarioChunkSize, ScenarioOverlap)
    \/ \E ov \in 0..MaxOverlap : SegStart(<<LongText>>, LongChunkSize, ov)

LoadPdf ==
    /\ seg_pc = "load"
    /\ pages_data' = load_pdf_with_pages(doc)
    /\ seg_pc' = "chunk"
    /\ UNCHANGED <<doc, chunk_size, overlap, chunks, chunk_id, page_idx, start>>
    /\ UNCHANGED notSeg

\* One pass through the body of the while loop.  Leaving the loop (the break,
\* or the loop test failing) moves the for loop on to the next page.
ChunkStep ==
    /\ seg_pc = "chunk"
    /\ page_idx <= Len(pages_data)
    /\ start < Len(pages_data[page_idx].text)
    /\ Len(chunks) < MaxChunks
    /\ LET page == pages_data[page_idx]
           end  == WindowEnd(page.text, start, chunk_size)
           next == NextStart(end, overlap)
       IN  /\ chunks' = Append(chunks, ChunkRecord(chunk_id, page, start, end))
           /\ chunk_id' = chunk_id + 1
           /\ IF next >= Len(page.text)
              THEN page_idx' = page_idx + 1 /\ start' = 0
              ELSE page_idx' = page_idx /\ start' = next
    /\ UNCHANGED <<doc, pages_data, chunk_size, overlap, seg_pc>>
    /\ UNCHANGED notSeg

\* return chunks, once the for loop has run out of pages.
ChunkReturn ==
    /\ seg_pc = "chunk"
    /\ page_idx > Len(pages_data)
    /\ seg_pc' = "done"
    /\ UNCHANGED <<doc, pages_data, chunk_size, overlap, chunks, chunk_id,
                   page_idx, start>>
    /\ UNCHANGED notSeg

SegNext == LoadPdf \/ ChunkStep \/ ChunkReturn

-----------------------------------------------------------------------------
(* new_rag_system.py: _find_relevant_sections *)

\* Distances and the Q&A confidence are in hundredths: DistUnit is 1.0.
DistUnit == 100
\* Relevance is in twelve-hundredths, so that (1.2 - d) / 1.2 is exact for
\* every distance in hundredths: RelUnit is 1.0.
RelUnit == 1200

MaxDistance == 120       \* max_distance = 1.2
MinRelevance == 240      \* relevance_score > 0.2
TopK == 6                \* top 6 most relevant chunks

\* A scoring that leaves out the max(0, ...).
RelevanceScoreUnclamped(distance) ==
    ((MaxDistance - distance) * RelUnit) \div MaxDistance

\* relevance_score = max(0, (max_distance - distance) / max_distance)
RelevanceScore(distance) ==
    Max(0, ((MaxDistance - distance) * RelUnit) \div MaxDistance)

\* A filter that also keeps a score equal to the threshold.
PassesFilterInclusive(relevance_score) == relevance_score >= MinRelevance

\* Only chunks with relevance_score > 0.2 are kept.
PassesFilter(relevance_score) == relevance_score > MinRelevance

Score(hit) ==
    [ distance        |-> hit.distance,
      relevance_score |-> RelevanceScore(hit.distance),
      page_number     |-> hit.page_number,
      source          |-> hit.source,
      admin           |-> hit.admin ]

\* Hits above the relevance threshold that are not administrative content.
Kept(c) == PassesFilter(c.relevance_score) /\ ~c.admin

TakeTop(s, k) == SubSeq(s, 1, Min(k, Len(s)))

FindRelevant(hits) ==
    TakeTop(SelectSeq([i \in 1..Len(hits) |-> Score(hits[i])], Kept), TopK)

\* confidence = 1 - results['distances'][0][0]
QueryConfidence(distance) == DistUnit - distance

-----------------------------------------------------------------------------
(* main.py: extract_key_sections confidence *)

BaseConfidence == 70         \* base_confidence = 0.7
SourceBonusEach == 4         \* len(sources) * 0.04
SourceBonusMax == 20         \* min(0.2, ...)
EvidenceBonusEach == 2       \* len(evidence) * 0.02
EvidenceBonusMax == 10       \* min(0.1, ...)
ConfidenceCap == 95          \* min(0.95, ...)

\* A formula without the final cap.
ExtractionConfidenceUncapped(n_sources, n_evidence) ==
    BaseConfidence + Min(SourceBonusMax, n_sources * SourceBonusEach)
                   + Min(EvidenceBonusMax, n_evidence * EvidenceBonusEach)

ExtractionConfidence(n_sources, n_evidence) ==
    Min(ConfidenceCap,
        BaseConfidence + Min(SourceBonusMax, n_sources * SourceBonusEach)
                       + Min(EvidenceBonusMax, n_evidence * EvidenceBonusEach))

-----------------------------------------------------------------------------
(* The answer to one question *)

\* The source labels of a list of candidates, each once, in first-seen order.
RECURSIVE Dedupe(_)
Dedupe(s) ==
    IF s = <<>> THEN <<>>
    ELSE LET rest == Dedupe(SubSeq(s, 1, Len(s) - 1))
             x    == s[Len(s)]
         IN  IF \E i \in 1..Len(rest) : rest[i] = x THEN rest ELSE Append(rest, x)

Labels(cands) == [i \in 1..Len(cands) |-> cands[i].source]

\* Sources read off the raw hits instead of the evidence.
AnswerSourcesFromHits(hits, relevant) == Dedupe(Labels(hits))

AnswerSources(hits, relevant) == Dedupe(Labels(relevant))

\* The text a generation call comes back with: ask_llm gives "TIMEOUT_ERROR"
\* for a timeout, an HTTP error or an answer under 20 characters.
AskLlmIgnoringTimeout(outcome) == "answer"

AskLlm(outcome) == IF outcome = "ok" THEN "answer" ELSE "TIMEOUT_ERROR"

LlmOutcomes == {"ok", "timeout", "too_short"}

\* The generated text, or the raw retrieved text when generation failed.
ContentOf(llm_text) == IF llm_text = "TIMEOUT_ERROR" THEN "retrieved_text" ELSE "generated"

NoAnswer ==
    [ text       |-> "no_relevant_information",
      sources    |-> <<>>,
      evidence   |-> <<>>,
      confidence |-> 0 ]

MakeAnswer(hits, relevant, conf, llm_text) ==
    IF relevant = <<>> THEN NoAnswer
    ELSE [ text       |-> ContentOf(llm_text),
           sources    |-> AnswerSources(hits, relevant),
           evidence   |-> relevant,
           confidence |-> conf ]

-----------------------------------------------------------------------------
(* Inputs of a query *)

DistanceValues == {0, 30, 95, 96, 120, 150}

\* Ascending lists of n distances, none below lo: the vector index returns its
\* hits nearest first.
RECURSIVE AscendingLists(_, _)
AscendingLists(n, lo) ==
    IF n = 0 THEN {<<>>}
    ELSE UNION { { <<d>> \o rest : rest \in AscendingLists(n - 1, d) }
                 : d \in { d \in DistanceValues : d >= lo } }

\* The hits of a query: every per_page consecutive hits are chunks of one page,
\* the nearest of page 1, and the nearest hit of all may be administrative
\* content (a table of contents, a signature page).
Hits(dists, per_page, top_is_admin) ==
    [ i \in 1..Len(dists) |->
        [ distance    |-> dists[i],
          page_number |-> ((i - 1) \div per_page) + 1,
          source      |-> <<"Page ", ((i - 1) \div per_page) + 1>>,
          admin       |-> (top_is_admin /\ i = 1) ] ]

HitLists ==
    { Hits(dists, per_page, top_is_admin) :
        dists \in UNION { AscendingLists(n, 0) : n \in 0..MaxResults },
        per_page \in 1..MaxHitsPerPage,
        top_is_admin \in BOOLEAN }

-----------------------------------------------------------------------------
(* The question-answering state machine *)

RagInit ==
    /\ results = <<>>
    /\ scored = <<>>
    /\ relevant_sections = <<>>
    /\ confidence = "none"
    /\ answer = "none"
    /\ rag_pc = "idle"

\* The query embedding could not be had: the question fails.
EmbeddingUnavailable ==
    /\ rag_pc = "idle"
    /\ rag_pc' = "failed"
    /\ UNCHANGED <<results, scored, relevant_sections, confidence, answer>>
    /\ UNCHANGED notRag

FindRelevantSections ==
    /\ rag_pc = "idle"
    /\ \E hits \in HitLists :
          /\ results' = hits
          /\ scored' = [i \in 1..Len(hits) |-> Score(hits[i])]
          /\ relevant_sections' = FindRelevant(hits)
          /\ confidence' = IF hits = <<>> THEN "none"
                           ELSE QueryConfidence(hits[1].distance)
    /\ rag_pc' = "searched"
    /\ UNCHANGED answer
    /\ UNCHANGED notRag

AnswerQuestion ==
    /\ rag_pc = "searched"
    /\ \E outcome \in LlmOutcomes :
          answer' = MakeAnswer(results, relevant_sections, confidence,
                               AskLlm(outcome))
    /\ rag_pc' = "answered"
    /\ UNCHANGED <<results, scored, relevant_sections, confidence>>
    /\ UNCHANGED notRag

RagNext == EmbeddingUnavailable \/ FindRelevantSections \/ AnswerQuestion

-----------------------------------------------------------------------------
(* main.py: GET /extract-key-sections, one worker per section type *)

SectionOrder ==
    <<"Primary Objective", "Inclusion Criteria", "Exclusion Criteria",
      "Endpoints", "Safety", "Drug Information">>

SectionTypes == { SectionOrder[i] : i \in 1..Len(SectionOrder) }

IndexOf(title) == CHOOSE i \in 1..Len(SectionOrder) : SectionOrder[i] = title

\* How a section's generation call can end.
ExtractOutcomes == {"ok", "timeout"}

\* The evidence the question of a section type finds: the first type finds
\* first_ev chunks, each next type one more, never more than TopK.
EvidenceFound(title, first_ev) == Min(TopK, first_ev + IndexOf(title) - 1)

\* The pages n_evidence hits come from when per_page consecutive hits share a
\* page.
PagesOf(n_evidence, per_page) ==
    [ k \in 1..((n_evidence + per_page - 1) \div per_page) |-> <<"Page ", k>> ]

\* A result that comes out of the extraction already approved.
SectionResultApproved(title, n_evidence, per_page, llm_text) ==
    [ title          |-> title,
      content        |-> ContentOf(llm_text),
      confidence     |-> ExtractionConfidence(Len(PagesOf(n_evidence, per_page)),
                                              n_evidence),
      approved       |-> TRUE,
      sources        |-> PagesOf(n_evidence, per_page),
      evidence_count |-> n_evidence ]

SectionResult(title, n_evidence, per_page, llm_text) ==
    [ title          |-> title,
      content        |-> ContentOf(llm_text),
      confidence     |-> ExtractionConfidence(Len(PagesOf(n_evidence, per_page)),
                                              n_evidence),
      approved       |-> FALSE,
      sources        |-> PagesOf(n_evidence, per_page),
      evidence_count |-> n_evidence ]

-----------------------------------------------------------------------------
(* DocumentAnalysis: handleExtractSections, and the request it awaits *)

AllPending == [t \in {} |-> "pending"]
Pending(t) == t \notin DOMAIN task
NoGeneration == [t \in SectionTypes |-> "none"]

ExtInit ==
    /\ documentReady \in BOOLEAN
    /\ loading = FALSE
    /\ sections = <<>>
    /\ error = "none"
    /\ analysisComplete = FALSE
    /\ extract_pc = "idle"
    /\ backend_pc = "idle"
    /\ first_evidence \in 0..1
    /\ hits_per_page \in 1..MaxHitsPerPage
    /\ generation = NoGeneration
    /\ task = AllPending
    /\ response = "none"
    /\ extractions = 0

\* The document status the parent passes down changes.
DocumentReadyChanges ==
    /\ documentReady' = ~documentReady
    /\ UNCHANGED <<loading, sections, error, analysisComplete, extract_pc,
                   backend_pc, first_evidence, hits_per_page, generation, task,
                   response, extractions>>
    /\ UNCHANGED notExt

\* The button is shown while nothing was analysed yet and is then disabled
\* without a document; the re-analyse icon is shown afterwards and is only
\* disabled while loading.
ExtractClickable == ~loading /\ (analysisComplete \/ documentReady)

\* handleExtractSections without a document: an error message, no request.
ExtractNotReady ==
    /\ extract_pc = "idle"
    /\ ExtractClickable
    /\ ~documentReady
    /\ error' = "Please upload a document first"
    /\ UNCHANGED <<documentReady, loading, sections, analysisComplete,
                   extract_pc, backend_pc, first_evidence, hits_per_page,
                   generation, task, response, extractions>>
    /\ UNCHANGED notExt

\* handleExtractSections up to the await: the request goes out.
ExtractStart ==
    /\ extract_pc = "idle"
    /\ ExtractClickable
    /\ documentReady
    /\ extractions < MaxExtractions
    /\ loading' = TRUE
    /\ error' = "none"
    /\ extract_pc' = "awaiting"
    /\ backend_pc' = "working"
    /\ generation' = NoGeneration
    /\ task' = AllPending
    /\ response' = "none"
    /\ extractions' = extractions + 1
    /\ UNCHANGED <<documentReady, sections, analysisComplete, first_evidence,
                   hits_per_page>>
    /\ UNCHANGED notExt

\* One worker of the pool: retrieval, then the generation call, for one section
\* type.  A failed generation call leaves the retrieved text as the content.
SectionWorker(t) ==
    /\ backend_pc = "working"
    /\ Pending(t)
    /\ \E outcome \in ExtractOutcomes :
          /\ generation' = [generation EXCEPT ![t] = outcome]
          /\ task' = [x \in DOMAIN task \cup {t} |->
                 IF x = t
                 THEN SectionResult(t, EvidenceFound(t, first_evidence),
                                    hits_per_page, AskLlm(outcome))
                 ELSE task[x]]
    /\ UNCHANGED <<documentReady, loading, sections, error, analysisComplete,
                   extract_pc, backend_pc, first_evidence, hits_per_page,
                   response, extractions>>
    /\ UNCHANGED notExt

\* All workers are joined: the response carries the six sections in order.
ExtractRespond ==
    /\ backend_pc = "working"
    /\ \A t \in SectionTypes : ~Pending(t)
    /\ response' = [ error    |-> "none",
                     sections |-> [i \in 1..Len(SectionOrder) |->
                                      task[SectionOrder[i]]] ]
    /\ backend_pc' = "responded"
    /\ UNCHANGED <<documentReady, loading, sections, error, analysisComplete,
                   extract_pc, first_evidence, hits_per_page, generation, task,
                   extractions>>
    /\ UNCHANGED notExt

\* The endpoint answers with an error body before any section is worked on
\* (nothing is indexed).
ExtractRespondError ==
    /\ backend_pc = "working"
    /\ \A t \in SectionTypes : Pending(t)
    /\ response' = [ error |-> "No document uploaded", sections |-> <<>> ]
    /\ backend_pc' = "responded"
    /\ UNCHANGED <<documentReady, loading, sections, error, analysisComplete,
                   extract_pc, first_evidence, hits_per_page, generation, task,
                   extractions>>
    /\ UNCHANGED notExt

\* The await resolves: the try block and the finally of handleExtractSections.
ExtractResolve ==
    /\ extract_pc = "awaiting"
    /\ backend_pc = "responded"
    /\ IF response.error # "none"
       THEN /\ error' = response.error
            /\ UNCHANGED <<sections, analysisComplete>>
       ELSE /\ sections' = response.sections
            /\ analysisComplete' = TRUE
            /\ UNCHANGED error
    /\ loading' = FALSE
    /\ extract_pc' = "idle"
    /\ backend_pc' = "delivered"
    /\ UNCHANGED <<documentReady, first_evidence, hits_per_page, generation,
                   task, response, extractions>>
    /\ UNCHANGED notExt

\* The await rejects (the 5-minute axios timeout, or the network): catch and
\* finally.  Whatever the back end still does for the request is dropped.
ExtractReject ==
    /\ extract_pc = "awaiting"
    /\ backend_pc \in {"working", "responded"}
    /\ error' = "Failed to extract sections"
    /\ loading' = FALSE
    /\ extract_pc' = "idle"
    /\ backend_pc' = "idle"
    /\ generation' = NoGeneration
    /\ task' = AllPending
    /\ response' = "none"
    /\ UNCHANGED <<documentReady, sections, analysisComplete, first_evidence,
                   hits_per_page, extractions>>
    /\ UNCHANGED notExt

ExtNext ==
    \/ DocumentReadyChanges
    \/ ExtractNotReady
    \/ ExtractStart
    \/ \E t \in SectionTypes : SectionWorker(t)
    \/ ExtractRespond
    \/ ExtractRespondError
    \/ ExtractResolve
    \/ ExtractReject

-----------------------------------------------------------------------------
(* DocumentAnalysis: review of the extracted sections, and the summary *)

\* section.disapprovalReason: undefined until a decision writes the field.
ReasonOf(section) ==
    IF "disapprovalReason" \in DOMAIN section
    THEN section.disapprovalReason ELSE "undefined"

\* { ...section, approved, disapprovalReason }
WithDecision(section, approved, reason) ==
    [ title             |-> section.title,
      content           |-> section.content,
      confidence        |-> section.confidence,
      approved          |-> approved,
      sources           |-> section.sources,
      evidence_count    |-> section.evidence_count,
      disapprovalReason |-> reason ]

\* reason.trim()
Trimmed(reason) == IF reason = " " THEN "" ELSE reason

\* A filter that lets every section through.
ApprovedOfUnfiltered(secs) == secs

\* sections.filter(section => section.approved)
ApprovedOf(secs) == SelectSeq(secs, LAMBDA section : section.approved)

\* submitReview(sections): the body of POST /review-sections.
ReviewBody(secs) == secs

\* The summary the back end assembles: the approved sections of the request,
\* in order.
Assemble(secs) ==
    [i \in 1..Len(ApprovedOf(secs)) |->
        [ title |-> ApprovedOf(secs)[i].title,
          content |-> ApprovedOf(secs)[i].content ] ]

\* The sections an extraction without failures leaves on the page.
ExtractedLists ==
    { [i \in 1..Len(SectionOrder) |->
          SectionResult(SectionOrder[i], EvidenceFound(SectionOrder[i], first_ev),
                        1, AskLlm(outcome))] :
        first_ev \in {0}, outcome \in ExtractOutcomes }

RevIdle ==
    /\ generating = FALSE
    /\ disapprovalDialogOpen = FALSE
    /\ disapprovalReason = ""
    /\ selectedSectionIndex = 0
    /\ alerted = FALSE
    /\ summary_pc = "idle"
    /\ posted = <<>>
    /\ review_response = "none"
    /\ finalSummary = "none"
    /\ reviews = 0

\* The page after a successful analysis.
RevInit ==
    /\ RevIdle
    /\ documentReady = TRUE
    /\ loading = FALSE
    /\ sections \in ExtractedLists
    /\ error = "none"
    /\ analysisComplete = TRUE
    /\ extract_pc = "idle"
    /\ backend_pc = "idle"
    /\ first_evidence = 0
    /\ hits_per_page = 1
    /\ generation = NoGeneration
    /\ task = AllPending
    /\ response = "none"
    /\ extractions = 1

\* handleApprovalChange(index, true): the Approve button of a section, disabled
\* once the section is approved.
HandleApprovalChange(index) ==
    /\ reviews < MaxReviews
    /\ ~sections[index].approved
    /\ sections' = [sections EXCEPT ![index] = WithDecision(@, TRUE, "null")]
    /\ reviews' = reviews + 1
    /\ UNCHANGED <<error, generating, disapprovalDialogOpen, disapprovalReason,
                   selectedSectionIndex, alerted, summary_pc, posted,
                   review_response, finalSummary>>
    /\ UNCHANGED notRev

\* handleDisapproveClick(index): the Disapprove button, disabled once the
\* section is disapproved with a reason.
HandleDisapproveClick(index) ==
    /\ reviews < MaxReviews
    /\ ~disapprovalDialogOpen
    /\ ~(sections[index].approved = FALSE
           /\ ReasonOf(sections[index]) \notin {"undefined", "null"})
    /\ selectedSectionIndex' = index
    /\ disapprovalReason' = ""
    /\ disapprovalDialogOpen' = TRUE
    /\ alerted' = FALSE
    /\ UNCHANGED <<sections, error, generating, summary_pc, posted,
                   review_response, finalSummary, reviews>>
    /\ UNCHANGED notRev

\* The text field of the dialog, filled in once:
\* setDisapprovalReason(e.target.value).
TypeReason(reason) ==
    /\ disapprovalDialogOpen
    /\ disapprovalReason = ""
    /\ disapprovalReason' = reason
    /\ UNCHANGED <<sections, error, generating, disapprovalDialogOpen,
                   selectedSectionIndex, alerted, summary_pc, posted,
                   review_response, finalSummary, reviews>>
    /\ UNCHANGED notRev

\* Cancel, or closing the dialog: setDisapprovalDialogOpen(false).
CloseDisapprovalDialog ==
    /\ disapprovalDialogOpen
    /\ disapprovalDialogOpen' = FALSE
    /\ UNCHANGED <<sections, error, generating, disapprovalReason,
                   selectedSectionIndex, alerted, summary_pc, posted,
                   review_response, finalSummary, reviews>>
    /\ UNCHANGED notRev

\* handleSubmitDisapproval without a reason: the alert, nothing else.
SubmitDisapprovalBlank ==
    /\ disapprovalDialogOpen
    /\ Trimmed(disapprovalReason) = ""
    /\ ~alerted
    /\ alerted' = TRUE
    /\ UNCHANGED <<sections, error, generating, disapprovalDialogOpen,
                   disapprovalReason, selectedSectionIndex, summary_pc, posted,
                   review_response, finalSummary, reviews>>
    /\ UNCHANGED notRev

\* handleSubmitDisapproval with a reason.
HandleSubmitDisapproval ==
    /\ disapprovalDialogOpen
    /\ Trimmed(disapprovalReason) # ""
    /\ sections' = [sections EXCEPT ![selectedSectionIndex] =
                       WithDecision(@, FALSE, disapprovalReason)]
    /\ disapprovalDialogOpen' = FALSE
    /\ disapprovalReason' = ""
    /\ selectedSectionIndex' = 0
    /\ reviews' = reviews + 1
    /\ UNCHANGED <<error, generating, alerted, summary_pc, posted,
                   review_response, finalSummary>>
    /\ UNCHANGED notRev

\* handleGenerateSummary with no approved section: the message, no request.
\* (The button that calls it is disabled too: approvedCount === 0.)
GenerateSummaryNoneApproved ==
    /\ summary_pc = "idle"
    /\ Len(ApprovedOf(sections)) = 0
    /\ error' = "Please approve at least one section to generate a summary"
    /\ UNCHANGED <<sections, generating, disapprovalDialogOpen,
                   disapprovalReason, selectedSectionIndex, alerted, summary_pc,
                   posted, review_response, finalSummary, reviews>>
    /\ UNCHANGED notRev

\* handleGenerateSummary up to the await: submitReview(sections) goes out.
GenerateSummaryStart ==
    /\ summary_pc = "idle"
    /\ ~generating
    /\ Len(ApprovedOf(sections)) # 0
    /\ generating' = TRUE
    /\ error' = "none"
    /\ posted' = ReviewBody(sections)
    /\ review_response' = "none"
    /\ summary_pc' = "awaiting"
    /\ UNCHANGED <<sections, disapprovalDialogOpen, disapprovalReason,
                   selectedSectionIndex, alerted, finalSummary, reviews>>
    /\ UNCHANGED notRev

\* POST /review-sections answers: the summary of the approved sections, or an
\* error body when there is none.
ReviewRespond ==
    /\ summary_pc = "awaiting"
    /\ review_response' =
          IF Len(ApprovedOf(posted)) = 0
          THEN [ error |-> "NoApprovedSections", final_summary |-> <<>> ]
          ELSE [ error |-> "none", final_summary |-> Assemble(posted) ]
    /\ summary_pc' = "responded"
    /\ UNCHANGED <<sections, error, generating, disapprovalDialogOpen,
                   disapprovalReason, selectedSectionIndex, alerted, posted,
                   finalSummary, reviews>>
    /\ UNCHANGED notRev

\* The await resolves: the try block and the finally of handleGenerateSummary.
GenerateSummaryResolve ==
    /\ summary_pc = "responded"
    /\ IF review_response.error # "none"
       THEN /\ error' = review_response.error
            /\ UNCHANGED finalSummary
       ELSE /\ finalSummary' = review_response.final_summary
            /\ UNCHANGED error
    /\ generating' = FALSE
    /\ summary_pc' = "idle"
    /\ UNCHANGED <<sections, disapprovalDialogOpen, disapprovalReason,
                   selectedSectionIndex, alerted, posted, review_response,
                   reviews>>
    /\ UNCHANGED notRev

\* The await rejects: catch and finally.
GenerateSummaryReject ==
    /\ summary_pc \in {"awaiting", "responded"}
    /\ error' = "Failed to generate summary"
    /\ generating' = FALSE
    /\ summary_pc' = "idle"
    /\ UNCHANGED <<sections, disapprovalDialogOpen, disapprovalReason,
                   selectedSectionIndex, alerted, posted, review_response,
                   finalSummary, reviews>>
    /\ UNCHANGED notRev

RevNext ==
    \/ \E index \in 1..Len(sections) : HandleApprovalChange(index)
    \/ \E index \in 1..Len(sections) : HandleDisapproveClick(index)
    \/ \E reason \in {" ", "reason"} : TypeReason(reason)
    \/ CloseDisapprovalDialog
    \/ SubmitDisapprovalBlank
    \/ HandleSubmitDisapproval
    \/ GenerateSummaryNoneApproved
    \/ GenerateSummaryStart
    \/ ReviewRespond
    \/ GenerateSummaryResolve
    \/ GenerateSummaryReject

-----------------------------------------------------------------------------
(* llm_client.py: ask_llm; new_rag_system.py: _call_llm_for_reading *)

MinAnswerLen == 20      \* len(answer) < 20, len(answer) > 20

\* The lines a generated answer is made of.
LineKinds ==
    {"The dose is 10 mg.", "Human: and?", "ok", "Error: model busy, retry."}

LineLen(line) ==
    CASE line = "The dose is 10 mg."        -> 18
      [] line = "Human: and?"               -> 11
      [] line = "ok"                        -> 2
      [] line = "Error: model busy, retry." -> 25

\* line.startswith(('Human:', 'User:', 'Question:'))
IsDialogueTurn(line) == line = "Human: and?"

\* answer.startswith("Error")
StartsWithError(lines) == lines # <<>> /\ lines[1] = "Error: model busy, retry."

\* len(answer): the lines and the newlines between them.
RECURSIVE AnswerLen(_)
AnswerLen(lines) ==
    IF lines = <<>> THEN 0
    ELSE IF Len(lines) = 1 THEN LineLen(lines[1])
    ELSE LineLen(lines[1]) + 1 + AnswerLen(Tail(lines))

\* The clean-up loop of ask_llm: dialogue-turn lines are dropped.
CleanedLines(lines) == SelectSeq(lines, LAMBDA line : ~IsDialogueTurn(line))

RECURSIVE LinesUpTo(_)
LinesUpTo(n) ==
    IF n = 0 THEN {<<>>}
    ELSE LinesUpTo(n - 1)
           \cup { Append(ls, l) : ls \in { x \in LinesUpTo(n - 1) : Len(x) = n - 1 },
                                  l \in LineKinds }

\* What the provider can do with one request.
Replies ==
    { [kind |-> k, lines |-> <<>>] :
        k \in {"timeout", "http_error", "no_response_key", "exception"} }
      \cup { [kind |-> "answer", lines |-> ls] : ls \in LinesUpTo(MaxLines) }

\* ask_llm after its request: the cleaned answer, or "TIMEOUT_ERROR".
ask_llm(reply) ==
    IF reply.kind # "answer" THEN <<"TIMEOUT_ERROR">>
    ELSE IF AnswerLen(reply.lines) < MinAnswerLen THEN <<"TIMEOUT_ERROR">>
    ELSE CleanedLines(reply.lines)

\* _call_llm_for_reading after its request: the answer, or None.
call_llm_for_reading(reply) ==
    IF /\ reply.kind = "answer"
       /\ AnswerLen(reply.lines) > MinAnswerLen
       /\ ~StartsWithError(reply.lines)
    THEN reply.lines
    ELSE <<"None">>

GenIdle ==
    /\ model_warmed = FALSE
    /\ llm_fn = "none"
    /\ llm_reply = [kind |-> "none", lines |-> <<>>]
    /\ llm_posts = 0
    /\ llm_result = <<>>
    /\ llm_pc = "idle"

GenInit == GenIdle

\* One call of ask_llm, warm-up included: one request carries the prompt.
AskLlmCall ==
    /\ llm_pc = "idle"
    /\ \E warm_up_ok \in BOOLEAN : model_warmed' = (model_warmed \/ warm_up_ok)
    /\ \E reply \in Replies :
          /\ llm_reply' = reply
          /\ llm_result' = ask_llm(reply)
    /\ llm_fn' = "ask_llm"
    /\ llm_posts' = 1
    /\ llm_pc' = "returned"
    /\ UNCHANGED notGen

\* One call of _call_llm_for_reading: one request carries the prompt.
CallLlmForReading ==
    /\ llm_pc = "idle"
    /\ \E reply \in Replies :
          /\ llm_reply' = reply
          /\ llm_result' = call_llm_for_reading(reply)
    /\ llm_fn' = "_call_llm_for_reading"
    /\ llm_posts' = 1
    /\ llm_pc' = "returned"
    /\ UNCHANGED model_warmed
    /\ UNCHANGED notGen

\* The caller has its result; the gateway is free for the next call.
LlmReturn ==
    /\ llm_pc = "returned"
    /\ llm_pc' = "idle"
    /\ llm_fn' = "none"
    /\ llm_reply' = [kind |-> "none", lines |-> <<>>]
    /\ llm_posts' = 0
    /\ llm_result' = <<>>
    /\ UNCHANGED model_warmed
    /\ UNCHANGED notGen

GenNext == AskLlmCall \/ CallLlmForReading \/ LlmReturn

-----------------------------------------------------------------------------
(* embeddings.py: get_embedding *)

QueryPrefix == "search_query: "
DocumentPrefix == "search_document: "

\* raise Exception(message)
Raise(message) ==
    [ raised |-> TRUE, type |-> "Exception", message |-> message,
      embedding |-> <<>> ]

Return(embedding) ==
    [ raised |-> FALSE, type |-> "none", message |-> "none",
      embedding |-> embedding ]

\* prompt_text = f"search_query: {text.strip()}"
PromptText(text) == <<QueryPrefix>> \o Strip(text)

\* What the provider can do with one request: the vector is a list of
\* MaxDim numbers at most, possibly none.
EmbReplies ==
    { [kind |-> k, embedding |-> <<>>] :
        k \in {"connection_error", "timeout", "http_error", "no_embedding_key"} }
      \cup { [kind |-> "embedding", embedding |-> [i \in 1..n |-> 1]] :
               n \in 0..MaxDim }

\* A get_embedding that hands an empty vector back.
get_embedding_unchecked(text, reply) ==
    IF Strip(text) = <<>>
    THEN Raise("Error getting embedding: Empty text provided for embedding")
    ELSE CASE reply.kind = "connection_error" ->
                 Raise("Cannot connect to Ollama")
           [] reply.kind = "timeout" ->
                 Raise("Ollama embedding request timed out")
           [] reply.kind = "http_error" ->
                 Raise("Error getting embedding: Ollama HTTP error")
           [] reply.kind = "no_embedding_key" ->
                 Raise("Error getting embedding: no 'embedding' key in response")
           [] reply.kind = "embedding" -> Return(reply.embedding)

get_embedding(text, reply) ==
    IF Strip(text) = <<>>
    THEN Raise("Error getting embedding: Empty text provided for embedding")
    ELSE CASE reply.kind = "connection_error" ->
                 Raise("Cannot connect to Ollama")
           [] reply.kind = "timeout" ->
                 Raise("Ollama embedding request timed out")
           [] reply.kind = "http_error" ->
                 Raise("Error getting embedding: Ollama HTTP error")
           [] reply.kind = "no_embedding_key" ->
                 Raise("Error getting embedding: no 'embedding' key in response")
           [] reply.kind = "embedding" ->
                 IF Len(reply.embedding) = 0
                 THEN Raise("Error getting embedding: Ollama returned empty embedding")
                 ELSE Return(reply.embedding)

\* The texts of the chunks the chunker stores: prefix and stripped slice.
ChunkTexts ==
    { <<DocumentPrefix>> \o Strip(t) :
        t \in { x \in UNION { TextsOfLen(n) : n \in 1..MaxEmbedLen } :
                Strip(x) # <<>> } }

\* The questions a user can send, blank ones included.
QuestionTexts == UNION { TextsOfLen(n) : n \in 0..MaxEmbedLen }

NoReply == [kind |-> "none", embedding |-> <<>>]

EmbIdle ==
    /\ emb_site = "none"
    /\ emb_text = <<>>
    /\ emb_prompt = <<>>
    /\ emb_reply = NoReply
    /\ emb_result = Return(<<>>)
    /\ emb_pc = "idle"

EmbInit == EmbIdle

\* get_embedding as a whole, for the text of one call site.
Embed(site, text) ==
    /\ emb_pc = "idle"
    /\ emb_site' = site
    /\ emb_text' = text
    /\ IF Strip(text) = <<>>
       THEN /\ emb_prompt' = <<>>
            /\ emb_reply' = NoReply
            /\ emb_result' = get_embedding(text, NoReply)
       ELSE /\ emb_prompt' = PromptText(text)
            /\ \E reply \in EmbReplies :
                  /\ emb_reply' = reply
                  /\ emb_result' = get_embedding(text, reply)
    /\ emb_pc' = "returned"
    /\ UNCHANGED notEmb

\* Ingestion embeds the text of a stored chunk.
EmbedChunk == \E text \in ChunkTexts : Embed("ingest", text)

\* simple_search and the retriever embed the question.
EmbedQuestion == \E text \in QuestionTexts : Embed("query", text)

EmbedReturn ==
    /\ emb_pc = "returned"
    /\ emb_site' = "none"
    /\ emb_text' = <<>>
    /\ emb_prompt' = <<>>
    /\ emb_reply' = NoReply
    /\ emb_result' = Return(<<>>)
    /\ emb_pc' = "idle"
    /\ UNCHANGED notEmb

EmbNext == EmbedChunk \/ EmbedQuestion \/ EmbedReturn

-----------------------------------------------------------------------------
(* App: document status; DocumentUpload: handleFileUpload *)

PollRetries == 5        \* if (attempt < 5)

Status(status, vector_count) ==
    [status |-> status, vector_count |-> vector_count]

\* const isDocumentReady =
\*   documentStatus.status === 'ready' && documentStatus.vector_count > 0
isDocumentReady ==
    documentStatus.status = "ready" /\ documentStatus.vector_count > 0

\* The back end is writing the chunks and embeddings of an upload.
IngestionInProgress == server_status.status = "processing"

\* The state of ChatInterface and of the upload that the other does not write.
uploadPart == <<uploading, upload_error, uploadResult, upload_pc, poll_attempt,
               poll_chains, poll_retries_used>>
chatPart == <<messages, isLoading, isTyping, chat_pc, typing_timers, asks_in_flight>>
statusPart == <<documentStatus, status_cache, server_status, status_refresh,
               status_checked>>

ChatIdle ==
    /\ documentStatus = Status("no_data", 0)
    /\ status_cache = <<>>
    /\ server_status = Status("no_data", 0)
    /\ uploading = FALSE
    /\ upload_error = "none"
    /\ upload_pc = "idle"
    /\ poll_attempt = 0
    /\ uploadResult = "none"
    /\ poll_chains = 0
    /\ poll_retries_used = 0
    /\ status_refresh = FALSE
    /\ status_checked = FALSE
    /\ messages = <<>>
    /\ isLoading = FALSE
    /\ isTyping = FALSE
    /\ chat_pc = "idle"
    /\ typing_timers = <<>>
    /\ asks_in_flight = <<>>

\* The application starts with no document, or with one ingested earlier.
ChatInit ==
    /\ server_status \in {Status("no_data", 0), Status("ready", 1)}
    /\ documentStatus = Status("no_data", 0)
    /\ status_cache = <<>>
    /\ uploading = FALSE
    /\ upload_error = "none"
    /\ upload_pc = "idle"
    /\ poll_attempt = 0
    /\ uploadResult = "none"
    /\ poll_chains = 0
    /\ poll_retries_used = 0
    /\ status_refresh = FALSE
    /\ status_checked = FALSE
    /\ messages = <<>>
    /\ isLoading = FALSE
    /\ isTyping = FALSE
    /\ chat_pc = "idle"
    /\ typing_timers = <<>>
    /\ asks_in_flight = <<>>

\* checkStatus, on mount and every 30 seconds: getStatus answers from the
\* cache while it has an entry.
CheckStatus ==
    /\ IF status_cache # <<>>
       THEN /\ documentStatus' = [status |-> status_cache[1],
                                  vector_count |-> status_cache[2]]
            /\ UNCHANGED status_cache
       ELSE /\ documentStatus' = server_status
            /\ status_cache' = <<server_status.status, server_status.vector_count>>
    /\ status_checked' = TRUE
    /\ UNCHANGED <<server_status, status_refresh, uploadPart, chatPart>>
    /\ UNCHANGED notChat

\* onUploadComplete: two seconds after the upload has completed,
\* setDocumentStatus(await getStatus()).
RefreshAfterUpload ==
    /\ status_refresh
    /\ status_refresh' = FALSE
    /\ IF status_cache # <<>>
       THEN /\ documentStatus' = [status |-> status_cache[1],
                                  vector_count |-> status_cache[2]]
            /\ UNCHANGED status_cache
       ELSE /\ documentStatus' = server_status
            /\ status_cache' = <<server_status.status, server_status.vector_count>>
    /\ UNCHANGED <<server_status, status_checked, uploadPart, chatPart>>
    /\ UNCHANGED notChat

\* The cache entry is older than CACHE_DURATION: getCachedData deletes it.
StatusCacheExpires ==
    /\ status_cache # <<>>
    /\ status_cache' = <<>>
    /\ UNCHANGED <<documentStatus, server_status, status_refresh, status_checked,
                   uploadPart, chatPart>>
    /\ UNCHANGED notChat

\* The upload area is rendered: !uploading && !uploadResult
UploadAreaShown == ~uploading /\ uploadResult = "none"

\* handleFileUpload with a file that is not a PDF.
UploadNotPdf ==
    /\ UploadAreaShown
    /\ upload_error' = "Please select a PDF file"
    /\ upload_error' # upload_error
    /\ UNCHANGED <<uploading, uploadResult, upload_pc, poll_attempt, poll_chains,
                   poll_retries_used, statusPart, chatPart>>
    /\ UNCHANGED notChat

\* handleFileUpload with a PDF, up to the await of the upload request.
UploadStart ==
    /\ UploadAreaShown
    /\ uploading' = TRUE
    /\ upload_error' = "none"
    /\ uploadResult' = "none"
    /\ upload_pc' = "posting"
    /\ UNCHANGED <<poll_attempt, poll_chains, poll_retries_used, statusPart,
                   chatPart>>
    /\ UNCHANGED notChat

\* The upload request is accepted: the task starts, ingestion begins, the
\* status cache is cleared, the first poll is scheduled.
UploadAccepted ==
    /\ upload_pc = "posting"
    /\ poll_chains < MaxChains
    /\ server_status' = Status("processing", 0)
    /\ status_cache' = <<>>
    /\ upload_pc' = "polling"
    /\ poll_chains' = poll_chains + 1
    /\ poll_attempt' = 0
    /\ poll_retries_used' = 0
    /\ status_checked' = FALSE
    /\ UNCHANGED <<documentStatus, status_refresh, uploading, upload_error,
                   uploadResult, chatPart>>
    /\ UNCHANGED notChat

\* The upload request answers with an error body (a duplicate), or fails.
UploadRefused ==
    /\ upload_pc = "posting"
    /\ \E msg \in {"duplicate", "Upload failed"} : upload_error' = msg
    /\ uploading' = FALSE
    /\ upload_pc' = IF poll_chains > 0 THEN "polling" ELSE "idle"
    /\ UNCHANGED <<uploadResult, poll_attempt, poll_chains, poll_retries_used,
                   statusPart, chatPart>>
    /\ UNCHANGED notChat

\* The back end finishes the ingestion, well or badly.
IngestionEnds ==
    /\ IngestionInProgress
    /\ \E ok \in BOOLEAN :
          server_status' = IF ok THEN Status("ready", 1) ELSE Status("no_data", 0)
    /\ status_checked' = FALSE
    /\ UNCHANGED <<documentStatus, status_cache, status_refresh, uploadPart,
                   chatPart>>
    /\ UNCHANGED notChat

\* The position of handleFileUpload once a polling chain has ended.
AfterChain == IF upload_pc = "polling" /\ poll_chains = 1 THEN "idle" ELSE upload_pc

\* pollProgress: the task is still running, the next poll is scheduled.
PollRunning ==
    /\ poll_chains > 0
    /\ IngestionInProgress
    /\ poll_attempt' = Min(poll_attempt + 1, PollRetries)
    /\ UNCHANGED <<uploading, upload_error, uploadResult, upload_pc, poll_chains,
                   poll_retries_used, statusPart, chatPart>>
    /\ UNCHANGED notChat

\* pollProgress: the task has completed, with an error or with a result; a
\* result calls onUploadComplete, which starts the timer of the refresh.
PollCompleted ==
    /\ poll_chains > 0
    /\ ~IngestionInProgress
    /\ IF server_status.status = "ready"
       THEN /\ uploadResult' = "completed"
            /\ status_refresh' = TRUE
            /\ UNCHANGED upload_error
       ELSE /\ upload_error' = "Processing failed"
            /\ UNCHANGED <<uploadResult, status_refresh>>
    /\ uploading' = FALSE
    /\ poll_chains' = poll_chains - 1
    /\ upload_pc' = AfterChain
    /\ UNCHANGED <<poll_attempt, poll_retries_used, documentStatus, status_cache,
                   server_status, status_checked, chatPart>>
    /\ UNCHANGED notChat

\* pollProgress: the progress request fails; retried while attempt < 5.
PollFails ==
    /\ poll_chains > 0
    /\ IF poll_attempt < PollRetries
       THEN /\ poll_attempt' = poll_attempt + 1
            /\ poll_retries_used' = poll_retries_used + 1
            /\ UNCHANGED <<uploading, upload_error, upload_pc, poll_chains>>
       ELSE /\ upload_error' = "Failed to get upload progress"
            /\ uploading' = FALSE
            /\ poll_chains' = poll_chains - 1
            /\ upload_pc' = AfterChain
            /\ UNCHANGED <<poll_attempt, poll_retries_used>>
    /\ UNCHANGED <<uploadResult, statusPart, chatPart>>
    /\ UNCHANGED notChat

\* A Reset button that is always there.
ResetShownAlways == TRUE

\* The buttons that call resetUpload: "Upload Another" under the result,
\* "Try Again" in the error alert.
ResetShown == uploadResult # "none" \/ upload_error # "none"

\* resetUpload
resetUpload ==
    /\ ResetShown
    /\ uploading' = FALSE
    /\ uploadResult' = "none"
    /\ upload_error' = "none"
    /\ <<uploading', uploadResult', upload_error'>>
          # <<uploading, uploadResult, upload_error>>
    /\ UNCHANGED <<upload_pc, poll_attempt, poll_chains, poll_retries_used,
                   statusPart, chatPart>>
    /\ UNCHANGED notChat

-----------------------------------------------------------------------------
(* ChatInterface: handleSendMessage; api.js: askQuestion *)

NotReadyText == "Please upload a protocol document first."
AskFailedText ==
    "I apologize, but I encountered an error while processing your question. Please try again."

UserMessage(text) == [type |-> "user", content |-> text]

\* The message of the catch block, and of the missing document.
ErrorMessage(content) ==
    [type |-> "assistant", content |-> content, error |-> TRUE]

\* response.confidence || 0.5, in hundredths: 0 is falsy.
ConfidenceOrDefault(resp) ==
    IF "confidence" \in DOMAIN resp /\ resp.confidence # 0
    THEN resp.confidence ELSE 50

AssistantMessage(resp, question) ==
    [ type       |-> "assistant",
      content    |-> IF resp.answer # "" THEN resp.answer
                     ELSE "I apologize, but I couldn't find relevant information for your question.",
      sources    |-> resp.sources,
      evidence   |-> resp.evidence,
      confidence |-> ConfidenceOrDefault(resp),
      question   |-> question ]

\* What POST /ask can answer: the documented body (no confidence field), a
\* grounded answer with a confidence, the answer without grounding, and an
\* empty answer.
AskResponses ==
    { [answer |-> "grounded", sources |-> <<"Page 1">>, evidence |-> <<"e1">>],
      [answer |-> "grounded", sources |-> <<"Page 1">>, evidence |-> <<"e1">>,
       confidence |-> 70],
      [answer |-> NoAnswer.text, sources |-> NoAnswer.sources,
       evidence |-> NoAnswer.evidence, confidence |-> NoAnswer.confidence],
      [answer |-> "", sources |-> <<>>, evidence |-> <<>>] }

RoomFor(n) == Len(messages) + Len(typing_timers) + n <= MaxMessages

\* The texts the user sends.
Questions == {"first question", "second question"}

\* A guard that lets a second question out while one is loading.
CanSendWhileLoading == TRUE

\* if (!messageText.trim() || isLoading) return;
CanSend == ~isLoading

\* handleSendMessage without a document: a marked message, no request.
SendNotReady ==
    /\ CanSend
    /\ ~isDocumentReady
    /\ RoomFor(1)
    /\ messages' = Append(messages,
          ErrorMessage(NotReadyText))
    /\ UNCHANGED <<isLoading, isTyping, chat_pc, typing_timers, asks_in_flight,
                   statusPart, uploadPart>>
    /\ UNCHANGED notChat

\* handleSendMessage up to the await: the question goes out.
SendMessage(messageText) ==
    /\ CanSend
    /\ isDocumentReady
    /\ RoomFor(2)
    /\ messages' = Append(messages, UserMessage(messageText))
    /\ asks_in_flight' = Append(asks_in_flight, messageText)
    /\ isLoading' = TRUE
    /\ isTyping' = TRUE
    /\ chat_pc' = "awaiting"
    /\ UNCHANGED <<typing_timers, statusPart, uploadPart>>
    /\ UNCHANGED notChat

\* The await resolves: the message is built, its timer started, finally.
AskResolves ==
    /\ chat_pc = "awaiting"
    /\ asks_in_flight # <<>>
    /\ \E resp \in AskResponses :
          typing_timers' = Append(typing_timers,
                                  AssistantMessage(resp, Head(asks_in_flight)))
    /\ asks_in_flight' = Tail(asks_in_flight)
    /\ isLoading' = FALSE
    /\ chat_pc' = IF Tail(asks_in_flight) = <<>> THEN "idle" ELSE "awaiting"
    /\ UNCHANGED <<messages, isTyping, statusPart, uploadPart>>
    /\ UNCHANGED notChat

\* The 500 ms timer of an answer fires.
TypingTimerFires ==
    /\ typing_timers # <<>>
    /\ messages' = Append(messages, Head(typing_timers))
    /\ typing_timers' = Tail(typing_timers)
    /\ isTyping' = FALSE
    /\ UNCHANGED <<isLoading, chat_pc, asks_in_flight, statusPart, uploadPart>>
    /\ UNCHANGED notChat

\* The await rejects (time-out, network, server error): catch and finally.
AskRejects ==
    /\ chat_pc = "awaiting"
    /\ asks_in_flight # <<>>
    /\ messages' = Append(messages,
          ErrorMessage(AskFailedText))
    /\ asks_in_flight' = Tail(asks_in_flight)
    /\ isTyping' = FALSE
    /\ isLoading' = FALSE
    /\ chat_pc' = IF Tail(asks_in_flight) = <<>> THEN "idle" ELSE "awaiting"
    /\ UNCHANGED <<typing_timers, statusPart, uploadPart>>
    /\ UNCHANGED notChat

\* The one message clearChat leaves in the list.
ClearedGreeting ==
    [ type    |-> "assistant",
      content |-> IF isDocumentReady
                  THEN "Chat cleared! How can I help you with the protocol document?"
                  ELSE "Chat cleared! Please upload a protocol document to get started." ]

\* clearChat: the list is replaced; timers and requests under way stay.
clearChat ==
    /\ messages # <<>>
    /\ messages # <<ClearedGreeting>>
    /\ messages' = <<ClearedGreeting>>
    /\ UNCHANGED <<isLoading, isTyping, chat_pc, typing_timers, asks_in_flight,
                   statusPart, uploadPart>>
    /\ UNCHANGED notChat

ChatNext ==
    \/ CheckStatus
    \/ RefreshAfterUpload
    \/ StatusCacheExpires
    \/ UploadNotPdf
    \/ UploadStart
    \/ UploadAccepted
    \/ UploadRefused
    \/ IngestionEnds
    \/ PollRunning
    \/ PollCompleted
    \/ PollFails
    \/ resetUpload
    \/ SendNotReady
    \/ \E messageText \in Questions : SendMessage(messageText)
    \/ AskResolves
    \/ TypingTimerFires
    \/ AskRejects
    \/ clearChat

-----------------------------------------------------------------------------
(* api.js: getCachedData, setCachedData and the three cached requests *)

CACHE_DURATION == 5     \* 5 * 60 * 1000 ms, in minutes

\* 'status', `feedback-stats-${days}`, `recent-feedback-${limit}` with the
\* default arguments.
CacheKeys == {"status", "feedback-stats-7", "recent-feedback-20"}

NoData == 0             \* null

\* A test that still accepts an entry of exactly CACHE_DURATION.
FreshInclusive(key) ==
    /\ key \in DOMAIN cache
    /\ cache_now - cache[key].timestamp <= CACHE_DURATION

\* cached && Date.now() - cached.timestamp < CACHE_DURATION
Fresh(key) ==
    /\ key \in DOMAIN cache
    /\ cache_now - cache[key].timestamp < CACHE_DURATION

\* cache.delete(key)
Without(key) == [k \in DOMAIN cache \ {key} |-> cache[k]]

\* getCachedData(key): the data, and the cache it leaves behind.
getCachedData(key) ==
    IF Fresh(key)
    THEN [data |-> cache[key].data, cache |-> cache]
    ELSE [data |-> NoData, cache |-> Without(key)]

\* setCachedData(key, data)
setCachedData(key, data) ==
    [k \in DOMAIN cache \cup {key} |->
        IF k = key THEN [data |-> data, timestamp |-> cache_now] ELSE cache[k]]

AgeOf(key) == IF key \in DOMAIN cache THEN cache_now - cache[key].timestamp ELSE -1

NoCall == [key |-> "none", age |-> -1, returned |-> NoData, requested |-> FALSE]

CacheIdle ==
    /\ cache = [k \in {} |-> NoData]
    /\ cache_now = 0
    /\ cache_backend = 1
    /\ cache_fetching = {}
    /\ cache_call = NoCall

CacheInit == CacheIdle

\* getStatus, getFeedbackStats, getRecentFeedback up to the await: answered
\* from the cache, or a request goes out.
CachedGet(key) ==
    /\ key \notin cache_fetching
    /\ LET got == getCachedData(key) IN
          /\ cache' = got.cache
          /\ IF got.data # NoData
             THEN /\ cache_call' = [key |-> key, age |-> AgeOf(key),
                                    returned |-> got.data, requested |-> FALSE]
                  /\ UNCHANGED cache_fetching
             ELSE /\ cache_call' = [key |-> key, age |-> AgeOf(key),
                                    returned |-> NoData, requested |-> TRUE]
                  /\ cache_fetching' = cache_fetching \cup {key}
    /\ UNCHANGED <<cache_now, cache_backend>>
    /\ UNCHANGED notCache

\* The request answers: setCachedData(cacheKey, response.data).
FetchResolves(key) ==
    /\ key \in cache_fetching
    /\ cache' = setCachedData(key, cache_backend)
    /\ cache_fetching' = cache_fetching \ {key}
    /\ UNCHANGED <<cache_now, cache_backend, cache_call>>
    /\ UNCHANGED notCache

\* The request fails: throw new Error(...), nothing is stored.
FetchRejects(key) ==
    /\ key \in cache_fetching
    /\ cache_fetching' = cache_fetching \ {key}
    /\ UNCHANGED <<cache, cache_now, cache_backend, cache_call>>
    /\ UNCHANGED notCache

\* uploadPDF, uploadPDFWithProgress: cache.delete('status')
UploadClearsStatus ==
    /\ "status" \in DOMAIN cache
    /\ cache' = Without("status")
    /\ UNCHANGED <<cache_now, cache_backend, cache_fetching, cache_call>>
    /\ UNCHANGED notCache

\* clearCache: cache.clear()
clearCache ==
    /\ DOMAIN cache # {}
    /\ cache' = [k \in {} |-> NoData]
    /\ UNCHANGED <<cache_now, cache_backend, cache_fetching, cache_call>>
    /\ UNCHANGED notCache

\* A minute passes.
CacheTick ==
    /\ cache_now < MaxNow
    /\ cache_now' = cache_now + 1
    /\ UNCHANGED <<cache, cache_backend, cache_fetching, cache_call>>
    /\ UNCHANGED notCache

\* The data behind the endpoints changes.
BackendChanges ==
    /\ cache_backend < MaxVersion
    /\ cache_backend' = cache_backend + 1
    /\ UNCHANGED <<cache, cache_now, cache_fetching, cache_call>>
    /\ UNCHANGED notCache

CacheNext ==
    \/ \E key \in CacheKeys : CachedGet(key)
    \/ \E key \in CacheKeys : FetchResolves(key)
    \/ \E key \in CacheKeys : FetchRejects(key)
    \/ UploadClearsStatus
    \/ clearCache
    \/ CacheTick
    \/ BackendChanges

-----------------------------------------------------------------------------
(* useApi.js: execute *)

\* Who raised an error, and in which attempt (counted from 1).
ErrorOf(origin, n) == [origin |-> origin, attempt |-> n]
NoError == ErrorOf("none", 0)

\* The options execute is called with: onSuccess may be missing, return or
\* throw; onError may be missing or present.
ApiOptions ==
    [ retries : 0..MaxRetries, showLoading : BOOLEAN,
      onSuccess : {"none", "returns", "throws"}, onError : BOOLEAN ]

DefaultOptions ==
    [retries |-> 0, showLoading |-> TRUE, onSuccess |-> "none", onError |-> FALSE]

ApiIdle ==
    /\ api_options = DefaultOptions
    /\ api_loading = FALSE
    /\ api_error = "null"
    /\ api_attempt = 0
    /\ api_invocations = 0
    /\ api_resolved = 0
    /\ api_success_calls = 0
    /\ api_error_calls = 0
    /\ api_thrown = NoError
    /\ api_pc = "idle"

ApiInit == ApiIdle

\* execute(apiCall, options) up to the first await apiCall().
Execute(options) ==
    /\ api_pc \in {"idle", "returned", "thrown"}
    /\ api_options' = options
    /\ api_loading' = IF options.showLoading THEN TRUE ELSE api_loading
    /\ api_error' = "null"
    /\ api_attempt' = 0
    /\ api_invocations' = 1
    /\ api_resolved' = 0
    /\ api_success_calls' = 0
    /\ api_error_calls' = 0
    /\ api_thrown' = NoError
    /\ api_pc' = "calling"
    /\ UNCHANGED notApi

\* A test that allows one attempt more.
RetriesExhaustedOneLate == api_attempt + 1 > api_options.retries + 1

\* attempt++; if (attempt > retries)
RetriesExhausted == api_attempt + 1 > api_options.retries

\* The catch block, for an error raised in the try block.
Catch(err) ==
    /\ api_attempt' = api_attempt + 1
    /\ IF RetriesExhausted
       THEN /\ api_error' = "message"
            /\ api_error_calls' = IF api_options.onError THEN api_error_calls + 1
                                  ELSE api_error_calls
            /\ api_thrown' = err
            /\ api_pc' = "thrown"
       ELSE /\ api_pc' = "waiting"
            /\ UNCHANGED <<api_error, api_error_calls, api_thrown>>

\* await apiCall() rejects.
ApiCallRejects ==
    /\ api_pc = "calling"
    /\ Catch(ErrorOf("apiCall", api_invocations))
    /\ api_loading' = IF RetriesExhausted /\ api_options.showLoading
                      THEN FALSE ELSE api_loading
    /\ UNCHANGED <<api_options, api_invocations, api_resolved, api_success_calls>>
    /\ UNCHANGED notApi

\* await apiCall() resolves: loading is cleared, onSuccess is called; when it
\* throws, the catch block of the same try takes the error.
ApiCallResolves ==
    /\ api_pc = "calling"
    /\ api_resolved' = api_resolved + 1
    /\ api_loading' = IF api_options.showLoading THEN FALSE ELSE api_loading
    /\ api_success_calls' = IF api_options.onSuccess # "none"
                            THEN api_success_calls + 1 ELSE api_success_calls
    /\ IF api_options.onSuccess = "throws"
       THEN Catch(ErrorOf("onSuccess", api_invocations))
       ELSE /\ api_pc' = "returned"
            /\ UNCHANGED <<api_attempt, api_error, api_error_calls, api_thrown>>
    /\ UNCHANGED <<api_options, api_invocations>>
    /\ UNCHANGED notApi

\* The delay retryDelay * attempt is over: the loop calls apiCall again.
RetryDelayElapses ==
    /\ api_pc = "waiting"
    /\ api_invocations' = api_invocations + 1
    /\ api_pc' = "calling"
    /\ UNCHANGED <<api_options, api_loading, api_error, api_attempt, api_resolved,
                   api_success_calls, api_error_calls, api_thrown>>
    /\ UNCHANGED notApi

ApiNext ==
    \/ \E options \in ApiOptions : Execute(options)
    \/ ApiCallRejects
    \/ ApiCallResolves
    \/ RetryDelayElapses

-----------------------------------------------------------------------------
(* Properties of retrieval and of the answer to a question *)

Clamp(x, lo, hi) == Max(lo, Min(hi, x))

\* C5: the relevance of every scored hit lies between 0 and 1; it is 1 at
\* distance 0 and 0 at distance 1.2 and beyond.
C5_RelevanceBounds ==
    \A i \in 1..Len(scored) :
        /\ 0 <= scored[i].relevance_score
        /\ scored[i].relevance_score <= RelUnit
        /\ scored[i].distance = 0 => scored[i].relevance_score = RelUnit
        /\ scored[i].distance >= MaxDistance => scored[i].relevance_score = 0

\* A query whose hits include distance 0, distance 1.2 and a distance beyond it.
C5_Witness ==
    /\ \E i \in 1..Len(scored) : scored[i].distance = 0
    /\ \E i \in 1..Len(scored) : scored[i].distance = MaxDistance
    /\ \E i \in 1..Len(scored) : scored[i].distance > MaxDistance

\* C6: what retrieval returns is at most TopK candidates, each one of the
\* scored hits and each with a relevance strictly above MinRelevance.
C6_RetrieveFilter ==
    rag_pc \in {"searched", "answered"} =>
        /\ Len(relevant_sections) <= TopK
        /\ \A i \in 1..Len(relevant_sections) :
              /\ relevant_sections[i].relevance_score > MinRelevance
              /\ \E j \in 1..Len(scored) : scored[j] = relevant_sections[i]

\* A search with more than TopK hits above the threshold and one hit exactly
\* on it.
C6_Witness ==
    /\ rag_pc = "searched"
    /\ Len(relevant_sections) = TopK
    /\ Cardinality({ j \in 1..Len(scored) :
                       scored[j].relevance_score > MinRelevance }) > TopK
    /\ \E j \in 1..Len(scored) : scored[j].relevance_score = MinRelevance

\* No hit of the query scores above MinRelevance.
NoGrounding == \A i \in 1..Len(scored) : scored[i].relevance_score <= MinRelevance

C10_QaConfidenceClamped ==
    results # <<>> =>
        /\ confidence = Clamp(DistUnit - results[1].distance, 0, DistUnit)
        /\ 0 <= confidence
        /\ confidence <= DistUnit

-----------------------------------------------------------------------------
(* Properties of key-section extraction *)

\* Every section a worker has produced, the response carries, or the page shows.
ProducedSections ==
    { task[t] : t \in DOMAIN task }
      \cup (IF backend_pc \in {"responded", "delivered"}
            THEN { response.sections[i] : i \in 1..Len(response.sections) }
            ELSE {})
      \cup { sections[i] : i \in 1..Len(sections) }

TimedOut == { t \in SectionTypes : generation[t] = "timeout" }

-----------------------------------------------------------------------------
(* Specifications *)

SegIdle ==
    /\ doc = <<>>
    /\ pages_data = <<>>
    /\ chunk_size = 1000
    /\ overlap = 200
    /\ chunks = <<>>
    /\ chunk_id = 0
    /\ page_idx = 1
    /\ start = 0
    /\ seg_pc = "done"

ExtIdle ==
    /\ documentReady = FALSE
    /\ loading = FALSE
    /\ sections = <<>>
    /\ error = "none"
    /\ analysisComplete = FALSE
    /\ extract_pc = "idle"
    /\ backend_pc = "idle"
    /\ first_evidence = 0
    /\ hits_per_page = 1
    /\ generation = NoGeneration
    /\ task = AllPending
    /\ response = "none"
    /\ extractions = 0

SegSpecInit == SegInit /\ RagInit /\ ExtIdle /\ RevIdle /\ GenIdle /\ EmbIdle /\ ChatIdle /\ CacheIdle /\ ApiIdle

SegSpec == SegSpecInit /\ [][SegNext]_vars

RagSpecInit == RagInit /\ SegIdle /\ ExtIdle /\ RevIdle /\ GenIdle /\ EmbIdle /\ ChatIdle /\ CacheIdle /\ ApiIdle

RagSpec == RagSpecInit /\ [][RagNext]_vars

ExtSpecInit == ExtInit /\ SegIdle /\ RagInit /\ RevIdle /\ GenIdle /\ EmbIdle /\ ChatIdle /\ CacheIdle /\ ApiIdle

ExtSpec == ExtSpecInit /\ [][ExtNext]_vars

RevSpecInit == RevInit /\ SegIdle /\ RagInit /\ GenIdle /\ EmbIdle /\ ChatIdle /\ CacheIdle /\ ApiIdle

RevSpec == RevSpecInit /\ [][RevNext]_vars

GenSpecInit == GenInit /\ SegIdle /\ RagInit /\ ExtIdle /\ RevIdle /\ EmbIdle /\ ChatIdle /\ CacheIdle /\ ApiIdle

GenSpec == GenSpecInit /\ [][GenNext]_vars

EmbSpecInit == EmbInit /\ SegIdle /\ RagInit /\ ExtIdle /\ RevIdle /\ GenIdle /\ ChatIdle /\ CacheIdle /\ ApiIdle

EmbSpec == EmbSpecInit /\ [][EmbNext]_vars

ChatSpecInit == ChatInit /\ SegIdle /\ RagInit /\ ExtIdle /\ RevIdle /\ GenIdle /\ EmbIdle /\ CacheIdle /\ ApiIdle

ChatSpec == ChatSpecInit /\ [][ChatNext]_vars

CacheSpecInit == CacheInit /\ SegIdle /\ RagInit /\ ExtIdle /\ RevIdle /\ GenIdle /\ EmbIdle /\ ChatIdle /\ ApiIdle

CacheSpec == CacheSpecInit /\ [][CacheNext]_vars

ApiSpecInit == ApiInit /\ SegIdle /\ RagInit /\ ExtIdle /\ RevIdle /\ GenIdle /\ EmbIdle /\ ChatIdle /\ CacheIdle

ApiSpec == ApiSpecInit /\ [][ApiNext]_vars

\* The upload and the document status alone, the chat left idle.
UploadNext ==
    \/ CheckStatus
    \/ RefreshAfterUpload
    \/ StatusCacheExpires
    \/ UploadNotPdf
    \/ UploadStart
    \/ UploadAccepted
    \/ UploadRefused
    \/ IngestionEnds
    \/ PollRunning
    \/ PollCompleted
    \/ PollFails
    \/ resetUpload

UploadSpecInit == ChatInit /\ SegIdle /\ RagInit /\ ExtIdle /\ RevIdle /\ GenIdle /\ EmbIdle /\ CacheIdle /\ ApiIdle

UploadSpec == UploadSpecInit /\ [][UploadNext]_vars

\* The chat alone, with the document status it is gated by.
ConvNext ==
    \/ CheckStatus
    \/ SendNotReady
    \/ \E messageText \in Questions : SendMessage(messageText)
    \/ AskResolves
    \/ TypingTimerFires
    \/ AskRejects
    \/ clearChat

ConvSpecInit == ChatInit /\ SegIdle /\ RagInit /\ ExtIdle /\ RevIdle /\ GenIdle /\ EmbIdle /\ CacheIdle /\ ApiIdle

ConvSpec == ConvSpecInit /\ [][ConvNext]_vars

-----------------------------------------------------------------------------
(* Properties of the chunker *)

IsScenario ==
    /\ doc = <<ScenarioText>>
    /\ chunk_size = ScenarioChunkSize
    /\ overlap = ScenarioOverlap

\* The page a chunk was cut from.
PageOf(c) == CHOOSE p \in { pages_data[i] : i \in 1..Len(pages_data) } :
                 p.page_number = c.page_number

\* C1: the per-page loop never goes round again on the same page without the
\* cursor having moved forward: a next start (end - overlap, after snapping)
\* that does not pass the previous start ends the chunking of that page.
C1_LoopAdvancesOrAborts ==
    [][ (seg_pc = "chunk" /\ chunks' # chunks /\ page_idx' = page_idx)
            => start' > start ]_vars

\* C2: two consecutive chunks of one page: the second starts at the recorded
\* end of the first minus the overlap.
C2_OverlapInvariant ==
    \A i \in 1..(Len(chunks) - 1) :
        chunks[i].page_number = chunks[i + 1].page_number
            => chunks[i + 1].start_pos = chunks[i].end_pos - overlap

\* A finished run in which a chunk that was snapped to a sentence boundary is
\* followed by another chunk of the same page, with a positive overlap.
C2_Witness ==
    /\ seg_pc = "done"
    /\ overlap > 0
    /\ \E i \in 1..(Len(chunks) - 1) :
          /\ chunks[i].page_number = chunks[i + 1].page_number
          /\ chunks[i].end_pos < chunks[i].start_pos + chunk_size

\* The chunks' page slices put end to end, each but the first without its
\* first ov characters.
RECURSIVE Reconstruct(_, _)
Reconstruct(cs, ov) ==
    IF cs = <<>> THEN <<>>
    ELSE LET c     == cs[Len(cs)]
             slice == PySlice(PageOf(c).text, c.start_pos, c.end_pos)
         IN  IF Len(cs) = 1 THEN slice
             ELSE Reconstruct(SubSeq(cs, 1, Len(cs) - 1), ov)
                      \o PySlice(slice, ov, Len(slice))

\* A chunk that stops before its page does ends on a sentence boundary when its
\* window holds one.
OnSentenceBoundary(c) ==
    LET text    == PageOf(c).text
        matches == MatchEnds(PySlice(text, c.start_pos, c.start_pos + chunk_size))
    IN  (c.start_pos + chunk_size < Len(text) /\ matches # {})
            => c.end_pos = c.start_pos + SetMax(matches)

\* C3: the scenario page with chunk_size 30 and overlap 10 gives exactly three
\* chunks, which put together without the overlaps are the page again, each
\* ending on a sentence boundary where its window holds one.
C3_ScenarioThreeChunks ==
    IsScenario =>
        /\ Len(chunks) <= 3
        /\ seg_pc = "done" =>
              /\ Len(chunks) = 3
              /\ Reconstruct(chunks, overlap) = ScenarioText
              /\ \A i \in 1..Len(chunks) : OnSentenceBoundary(chunks[i])

-----------------------------------------------------------------------------
(* Properties of the review and of the summary *)

NoneApproved == \A i \in 1..Len(sections) : ~sections[i].approved

\* C11: summary generation over a section list in which no section is approved
\* fails: from a state with no approved section no step issues a review
\* request, changes the summary or starts generating, and the only message a
\* step can leave is the one that asks for an approval.
C11_NoApprovedNoSummary ==
    [][ (NoneApproved /\ summary_pc = "idle")
           => /\ posted' = posted
              /\ review_response' = review_response
              /\ finalSummary' = finalSummary
              /\ generating' = generating
              /\ summary_pc' = "idle"
              /\ (error' # error =>
                    error' = "Please approve at least one section to generate a summary")
      ]_vars

\* Summary generation was asked for with nothing approved, and refused.
C11_Witness ==
    /\ NoneApproved
    /\ reviews > 0
    /\ error = "Please approve at least one section to generate a summary"
    /\ posted = <<>>
    /\ finalSummary = "none"

\* C12: only sections with approved = true are submitted to summary
\* generation: every section in the body of a review request is approved.
C12_OnlyApprovedSubmitted ==
    \A i \in 1..Len(posted) : posted[i].approved

\* A step that changes the approved field of a section is a decision of the
\* review: handleApprovalChange or handleSubmitDisapproval.
ApprovedChangesOnlyInReview ==
    (\E i \in 1..Len(sections) :
        Len(sections') = Len(sections)
          /\ sections'[i].approved # sections[i].approved)
      => /\ reviews' = reviews + 1
         /\ \/ \E index \in 1..Len(sections) : HandleApprovalChange(index)
            \/ HandleSubmitDisapproval

\* C13 as stated: every section the extraction produces has approved = null, a
\* value that is neither true nor false, and approved changes only through the
\* review step.
C13_ExtractedApprovedIsNull ==
    /\ [](reviews = 0 =>
            \A i \in 1..Len(sections) : sections[i].approved \notin BOOLEAN)
    /\ [][ApprovedChangesOnlyInReview]_vars

\* C13, amended: every section the extraction produces has approved = false
\* and no disapproval reason, and approved changes only through the review
\* step.
C13_ExtractedApprovedIsFalse ==
    /\ [](reviews = 0 =>
            \A i \in 1..Len(sections) :
               /\ sections[i].approved = FALSE
               /\ ReasonOf(sections[i]) = "undefined")
    /\ [][ApprovedChangesOnlyInReview]_vars

\* One section has been approved in the review; another is still as the
\* extraction produced it.
C13_Witness ==
    /\ reviews > 0
    /\ \E i \in 1..Len(sections) :
          sections[i].approved /\ ReasonOf(sections[i]) = "null"
    /\ \E i \in 1..Len(sections) :
          ~sections[i].approved /\ ReasonOf(sections[i]) = "undefined"

-----------------------------------------------------------------------------
(* Properties of the generation gateway *)

\* A generated answer that is too short or holds a broken dialogue turn.
LowQualityOutput(reply) ==
    /\ reply.kind = "answer"
    /\ \/ AnswerLen(reply.lines) < MinAnswerLen
       \/ \E i \in 1..Len(reply.lines) : IsDialogueTurn(reply.lines[i])

\* C14: a generated answer that is too short or looks like a broken dialogue
\* turn triggers exactly one regeneration attempt: the call that got it has
\* sent the prompt twice by the time it returns.
C14_OneRegeneration ==
    (llm_pc = "returned" /\ LowQualityOutput(llm_reply)) => llm_posts = 2

-----------------------------------------------------------------------------
(* Properties of the embedding gateway *)

\* C15 as stated: connection refusal, timeout and a zero-length vector each
\* fail with an error kind of their own.
C15_OwnErrorKinds ==
    emb_pc = "returned" =>
       /\ emb_reply.kind = "connection_error"
             => (emb_result.raised /\ emb_result.type = "EmbeddingUnavailable")
       /\ emb_reply.kind = "timeout"
             => (emb_result.raised /\ emb_result.type = "EmbeddingTimeout")
       /\ (emb_reply.kind = "embedding" /\ Len(emb_reply.embedding) = 0)
             => (emb_result.raised /\ emb_result.type = "EmbeddingEmpty")

\* C15, amended: connection refusal, timeout and a zero-length vector each make
\* get_embedding raise, all three the one generic Exception, and each with a
\* message of its own that no other cause produces.
C15_OwnErrorMessages ==
    emb_pc = "returned" =>
       /\ emb_reply.kind = "connection_error"
             <=> (emb_result.raised /\ emb_result.type = "Exception"
                    /\ emb_result.message = "Cannot connect to Ollama")
       /\ emb_reply.kind = "timeout"
             <=> (emb_result.raised /\ emb_result.type = "Exception"
                    /\ emb_result.message = "Ollama embedding request timed out")
       /\ (emb_reply.kind = "embedding" /\ Len(emb_reply.embedding) = 0)
             <=> (emb_result.raised /\ emb_result.type = "Exception"
                    /\ emb_result.message =
                         "Error getting embedding: Ollama returned empty embedding")

\* The provider returned a vector of length zero and the call raised.
C15_Witness ==
    /\ emb_pc = "returned"
    /\ emb_reply.kind = "embedding"
    /\ Len(emb_reply.embedding) = 0
    /\ emb_result.raised

\* C16: every request to the provider carries the prefix of its call site's
\* role: a stored chunk goes out under the document prefix, a question under
\* the query prefix.
C16_PrefixPerRole ==
    (emb_pc = "returned" /\ emb_prompt # <<>>) =>
       /\ emb_site = "ingest" => emb_prompt[1] = DocumentPrefix
       /\ emb_site = "query" => emb_prompt[1] = QueryPrefix

-----------------------------------------------------------------------------
(* Properties of the upload and of the chat *)

\* C17: while the ingestion of a document is in progress, no question runs
\* against the collection.
C17_IngestionExcludesQueries ==
    ~(IngestionInProgress /\ chat_pc = "awaiting")

\* C18: when answering a question fails, what the user sees is a marked
\* degraded answer with confidence 0 and an explanatory text: the message shown
\* for a failed request, and the answer without grounding, are in the chat with
\* a text and with confidence 0.
C18_FailureIsDegradedAnswer ==
    \A i \in 1..Len(messages) :
       (/\ messages[i].type = "assistant"
        /\ messages[i].content \in {AskFailedText, NoAnswer.text})
          => /\ messages[i].content # ""
             /\ "confidence" \in DOMAIN messages[i]
             /\ messages[i].confidence = 0

-----------------------------------------------------------------------------
(* Further properties of the chunker *)

\* C19: the offsets of every chunk lie inside the text of the page that owns
\* it: 0 <= start_pos <= end_pos <= length of that page's text.
C19_OffsetsInsidePage ==
    \A i \in 1..Len(chunks) :
        /\ 0 <= chunks[i].start_pos
        /\ chunks[i].start_pos <= chunks[i].end_pos
        /\ chunks[i].end_pos <= Len(PageOf(chunks[i]).text)

\* A page of the document whose text is empty or only whitespace.
BlankPage(i) == Strip(doc[i]) = <<>>

\* C20: a page whose text is empty or only whitespace yields no chunk, and the
\* other pages are chunked all the same: once the chunker has returned, every
\* page with text has its chunks.
C20_BlankPageYieldsNoChunk ==
    /\ \A i \in 1..Len(chunks) : ~BlankPage(chunks[i].page_number)
    /\ seg_pc = "done" =>
          \A p \in 1..Len(doc) :
             ~BlankPage(p) => \E i \in 1..Len(chunks) : chunks[i].page_number = p

\* The chunker has returned for a document with a blank page before a page
\* with text.
C20_Witness ==
    /\ seg_pc = "done"
    /\ \E p \in 1..Len(doc) :
          /\ BlankPage(p)
          /\ doc[p] # <<>>
          /\ \E q \in (p + 1)..Len(doc) :
                \E i \in 1..Len(chunks) : chunks[i].page_number = q

-----------------------------------------------------------------------------
(* Further properties of the extraction confidence *)

\* C21: the extraction confidence never decreases when the number of sources
\* or the number of pieces of evidence grows, and it is 0.95 whenever there are
\* at least five sources and at least five pieces of evidence; the same holds
\* between any two sections the extraction produces.
C21_ConfidenceMonotoneAndSaturating ==
    /\ \A n_sources \in 0..MaxCount : \A n_evidence \in 0..MaxCount :
          /\ n_sources < MaxCount =>
                ExtractionConfidence(n_sources, n_evidence)
                   <= ExtractionConfidence(n_sources + 1, n_evidence)
          /\ n_evidence < MaxCount =>
                ExtractionConfidence(n_sources, n_evidence)
                   <= ExtractionConfidence(n_sources, n_evidence + 1)
          /\ (n_sources >= 5 /\ n_evidence >= 5) =>
                ExtractionConfidence(n_sources, n_evidence) = 95
    /\ \A a \in ProducedSections : \A b \in ProducedSections :
          /\ (Len(a.sources) <= Len(b.sources)
                /\ a.evidence_count <= b.evidence_count) =>
                a.confidence <= b.confidence
          /\ (Len(b.sources) >= 5 /\ b.evidence_count >= 5) =>
                b.confidence = 95

\* The page shows a section with fewer sources and less evidence and a lower
\* confidence next to a section that has reached five of each and 0.95.
C21_Witness ==
    /\ backend_pc = "delivered"
    /\ \E i \in 1..Len(sections) : \E j \in 1..Len(sections) :
          /\ Len(sections[i].sources) < Len(sections[j].sources)
          /\ sections[i].evidence_count < sections[j].evidence_count
          /\ sections[i].evidence_count > 0
          /\ sections[i].confidence < sections[j].confidence
          /\ Len(sections[j].sources) >= 5
          /\ sections[j].evidence_count >= 5
          /\ sections[j].confidence = 95

-----------------------------------------------------------------------------
(* Properties of the response cache *)

\* C22: a cached request is answered from the cache, with no request to the
\* back end, exactly when the cache holds an entry for its key that was stored
\* less than 5 minutes ago; an entry of 5 minutes or more is evicted and the
\* data is requested again, and the answer is stored under the time it came.
C22_CachedWhileYoungerThanFiveMinutes ==
    [][\A key \in CacheKeys :
          /\ CachedGet(key) =>
                IF key \in DOMAIN cache /\ cache_now - cache[key].timestamp < 5
                THEN /\ cache_call'.returned = cache[key].data
                     /\ ~cache_call'.requested
                     /\ cache_fetching' = cache_fetching
                     /\ cache' = cache
                ELSE /\ cache_call'.requested
                     /\ key \in cache_fetching'
                     /\ key \notin DOMAIN cache'
          /\ FetchResolves(key) =>
                cache'[key] = [data |-> cache_backend, timestamp |-> cache_now]
      ]_vars

\* getStatus found an entry of exactly 5 minutes: it is gone and the request
\* is on its way, while a younger entry of another key is still there.
C22_Witness ==
    /\ cache_call.key = "status"
    /\ cache_call.age = 5
    /\ cache_call.requested
    /\ "status" \in cache_fetching
    /\ "status" \notin DOMAIN cache
    /\ \E key \in DOMAIN cache : cache_now - cache[key].timestamp = 4

-----------------------------------------------------------------------------
(* Properties of useApi.execute *)

\* C23: execute invokes the API call at most retries + 1 times; when every
\* attempt has rejected it has made exactly retries + 1 attempts, error is set,
\* loading is cleared, onError has been called once and the error thrown is
\* the one of the last attempt.
C23_RetriesPlusOneAttempts ==
    /\ api_invocations <= api_options.retries + 1
    /\ (api_pc = "thrown" /\ api_resolved = 0) =>
          /\ api_invocations = api_options.retries + 1
          /\ api_error # "null"
          /\ api_loading = FALSE
          /\ api_options.onError => api_error_calls = 1
          /\ api_thrown = ErrorOf("apiCall", api_options.retries + 1)
    /\ (api_pc \in {"calling", "waiting"} /\ api_resolved = 0) =>
          /\ api_error = "null"
          /\ api_error_calls = 0
          /\ api_thrown = NoError

\* Two retries were allowed and all three attempts have rejected.
C23_Witness ==
    /\ api_pc = "thrown"
    /\ api_options.retries = 2
    /\ api_options.onError
    /\ api_options.showLoading
    /\ api_resolved = 0
    /\ api_invocations = 3
    /\ api_error_calls = 1

\* C28: within one execute, once the API call has resolved it is not invoked
\* again, and onSuccess is called at most once.
C28_NoCallAfterSuccess ==
    /\ api_resolved <= 1
    /\ api_success_calls <= 1
    /\ api_resolved = 1 => api_pc \in {"returned", "thrown"}

-----------------------------------------------------------------------------
(* Further properties of the chat *)

\* C24: the chat has at most one question request in flight, and the loading
\* flag is set exactly while one is: it is cleared whenever a call settles.
C24_OneQuestionInFlight ==
    /\ Len(asks_in_flight) <= 1
    /\ isLoading <=> asks_in_flight # <<>>

\* A question is in flight in a chat that was cleared before: loading is
\* set and the question is the last message.
C24_Witness ==
    /\ Len(asks_in_flight) = 1
    /\ isLoading
    /\ Len(messages) = 2
    /\ messages[1] = ClearedGreeting
    /\ messages[2] = UserMessage(asks_in_flight[1])

\* C29: every assistant reply stands directly after the user message it
\* answers.
C29_ReplyFollowsItsQuestion ==
    \A i \in 1..Len(messages) :
       "question" \in DOMAIN messages[i] =>
          /\ i > 1
          /\ messages[i - 1] = UserMessage(messages[i].question)

-----------------------------------------------------------------------------
(* Properties of the document status and of the upload *)

\* C25: every periodic status check shows the status the back end has at that
\* time, so that a change of the back end is seen with the next check.
C25_StatusCheckShowsBackend ==
    status_checked => documentStatus = server_status

\* C26: the refresh that follows a completed upload sets documentStatus to the
\* status of the back end after the completion, never to one cached before.
C26_RefreshAfterUploadIsCurrent ==
    [][RefreshAfterUpload => documentStatus' = server_status]_vars

\* C27: the upload is reported as failed for a failed poll only after five
\* failed polls have been retried.
C27_FailsAfterFiveRetries ==
    /\ poll_retries_used <= 5
    /\ upload_error = "Failed to get upload progress" => poll_retries_used = 5

\* C30: at most one polling chain is active, and none is while uploading is
\* false: no poll is issued or applied after the completion, the failure or
\* the reset of an upload.
C30_OnePollingChainWhileUploading ==
    /\ poll_chains <= 1
    /\ poll_chains > 0 => uploading
    /\ upload_pc = "posting" => uploading

\* A second upload is being polled, one poll already retried, while the
\* refresh timer of the first upload, completed and reset, is still running.
C30_Witness ==
    /\ poll_chains = 1
    /\ uploading
    /\ poll_retries_used > 0
    /\ status_refresh
    /\ uploadResult = "none"

=============================================================================
